---- MODULE Spec2Model ----
(***************************************************************************)
(* Model of src/app.py: the feed-consumption dashboard.  A Streamlit       *)
(* script is re-executed from top to bottom after every user interaction;  *)
(* a widget's on_change callback runs first, on the session state left by  *)
(* the previous pass, and the script pass follows.  The state is the       *)
(* cached sheet, st.session_state, and the results of the last pass.       *)
(***************************************************************************)
EXTENDS Integers, Sequences, FiniteSets, TLC

\* ---- bounds ----
MaxRows == 2        \* data rows of the sheet
MaxDay == 3         \* distinct calendar days that can occur in the sheet

\* ---- markers pandas uses for "missing" ----
NaT == 0            \* pd.to_datetime(..., errors='coerce') on an unparseable date
NaN == 0 - 1        \* pd.to_numeric(..., errors='coerce') on a non-numeric value

\* ---- the sheet ----
\* Text of a date cell; a parsed date is its day number, 2024-01-0n |-> n.
DateText == <<"2024-01-01", "2024-01-02", "2024-01-03", "2024-01-04", "2024-01-05">>
DateCells == {DateText[i] : i \in 1..MaxDay} \cup {"bad"}

\* Text of a value cell, character by character.
Digits == <<"0", "1", "2", "3", "4", "5", "6", "7", "8", "9">>
ValueCells == {<<"1", "0">>, <<"7">>, <<"b", "a", "d">>, <<>>}
\* The session is explored on sheets with one row per date, in chronological
\* order, whose dates all parse and whose value cells are a number or a non-number.
SessionCells == {<<"1", "0">>, <<"b", "a", "d">>}
SessionDates == {DateText[i] : i \in 1..MaxDay}

\* Device columns a sheet can have, in sheet order.
DeviceSeq == <<"devA", "devB">>
DeviceSet == {DeviceSeq[i] : i \in 1..Len(DeviceSeq)}

Range(s) == {s[i] : i \in 1..Len(s)}

Headers == {SelectSeq(DeviceSeq, LAMBDA d : d \in S) : S \in SUBSET DeviceSet}
RowsOf(h, dates, cells) == [date : dates, vals : [Range(h) -> cells]]
IsSheet(t, dates, cells) ==
    \E h \in Headers, n \in 0..MaxRows :
        \E r \in [1..n -> RowsOf(h, dates, cells)] : t = [header |-> h, rows |-> r]

\* ---- pandas conversions ----
ToDatetime(cell) ==
    IF \E i \in 1..Len(DateText) : DateText[i] = cell
    THEN CHOOSE i \in 1..Len(DateText) : DateText[i] = cell
    ELSE NaT

DigitValue(c) == (CHOOSE i \in 1..10 : Digits[i] = c) - 1

RECURSIVE Decimal(_)
Decimal(cell) ==
    IF cell = <<>> THEN 0
    ELSE 10 * Decimal(SubSeq(cell, 1, Len(cell) - 1)) + DigitValue(cell[Len(cell)])

ToNumeric(cell) ==
    IF Len(cell) > 0 /\ \A i \in 1..Len(cell) : cell[i] \in Range(Digits)
    THEN Decimal(cell)
    ELSE NaN

\* ---- the script's data pipeline ----
\* df[date] = to_datetime(coerce); df.dropna(subset=[date])
ParseDates(rows) ==
    SelectSeq([i \in 1..Len(rows) |-> [date |-> ToDatetime(rows[i].date), vals |-> rows[i].vals]],
              LAMBDA r : r.date # NaT)

\* device_columns = [col for col in df.columns if col != date]
device_columns(header) == header

\* df.melt(id_vars=[date], value_vars=device_columns): column by column, rows in order
RECURSIVE Melt(_, _)
Melt(df, cols) ==
    IF cols = <<>> THEN <<>>
    ELSE [i \in 1..Len(df) |-> [date |-> df[i].date, device |-> Head(cols),
                                 value |-> df[i].vals[Head(cols)]]]
         \o Melt(df, Tail(cols))

\* a slip: the rows whose value is missing are kept
CoerceValues_KeepsMissing(long) ==
    [i \in 1..Len(long) |-> [date |-> long[i].date, device |-> long[i].device,
                              value |-> ToNumeric(long[i].value)]]

\* to_numeric(coerce); dropna(subset=[value])
CoerceValues(long) ==
    SelectSeq([i \in 1..Len(long) |-> [date |-> long[i].date, device |-> long[i].device,
                                        value |-> ToNumeric(long[i].value)]],
              LAMBDA r : r.value # NaN)

Reshape(df, cols) == CoerceValues(Melt(df, cols))

SeqMin(s) == CHOOSE x \in Range(s) : \A y \in Range(s) : x <= y
SeqMax(s) == CHOOSE x \in Range(s) : \A y \in Range(s) : x >= y
Dates(long) == [i \in 1..Len(long) |-> long[i].date]

\* df_melted[(date >= start) & (date <= end)]
FilterByRange(long, s, e) == SelectSeq(long, LAMBDA r : r.date >= s /\ r.date <= e)

\* sorted(filtered_df[device].unique().tolist()): a duplicate-free sorted list,
\* only ever tested for membership and length, kept as the set of its elements
DeviceOptions(filtered) == {filtered[i].device : i \in 1..Len(filtered)}

\* ---- session-state helpers ----
NoState == [k \in {} |-> 0]
Put(s, k, v) == [x \in (DOMAIN s) \cup {k} |-> IF x = k THEN v ELSE s[x]]
Default(s, k, v) == IF k \in DOMAIN s THEN s ELSE Put(s, k, v)

\* the selection, the options, the flag and the stored range, as they were
\* before the last interaction
Snapshot(s) ==
    [k \in (DOMAIN s) \cap {"selected_devices", "filtered_device_options",
                            "toggle_all_checkbox", "start_date", "end_date"} |-> s[k]]

\* a slip: the selection is dropped whole as soon as one device left the options
PruneSelection_ClearsAll(selected, options) ==
    IF selected \subseteq options THEN selected ELSE {}

\* a slip: the selection is not cleaned up
PruneSelection_Skipped(selected, options) == selected

\* selected_devices = {d for d in selected_devices if d in all_actual_device_options}
PruneSelection(selected, options) == {d \in selected : d \in options}

\* a slip: no test that there are options at all
initial_toggle_all_value_NoEmptyTest(selected, options) ==
    Cardinality(selected) = Cardinality(options)

initial_toggle_all_value(selected, options) ==
    Cardinality(selected) = Cardinality(options) /\ Cardinality(options) > 0

VARIABLES data, session_state, pc, outcome, df_melted, selected_devices_final,
          last_op, pre

vars == <<data, session_state, pc, outcome, df_melted, selected_devices_final,
          last_op, pre>>

Start ==
    /\ session_state = NoState
    /\ pc = "start"
    /\ outcome = "none"
    /\ df_melted = <<>>
    /\ selected_devices_final = {}
    /\ last_op = [op |-> "none"]
    /\ pre = NoState

Chronological(rows) ==
    \A i \in 1..(Len(rows) - 1) : ToDatetime(rows[i].date) < ToDatetime(rows[i + 1].date)

Init == IsSheet(data, SessionDates, SessionCells) /\ Chronological(data.rows) /\ Start
InitSheet == IsSheet(data, DateCells, ValueCells) /\ Start

\* a slip: select-all adds to / removes from the selection instead of replacing it
on_select_all_toggle_Merges(ss) ==
    IF ss.toggle_all_checkbox
    THEN Put(ss, "selected_devices", ss.selected_devices \cup ss.filtered_device_options)
    ELSE Put(ss, "selected_devices", ss.selected_devices \ ss.filtered_device_options)

\* ---- the callbacks (lines 25-55), as functions of the session state ----
on_select_all_toggle(ss) ==
    IF ss.toggle_all_checkbox
    THEN Put(ss, "selected_devices", ss.filtered_device_options)
    ELSE Put(ss, "selected_devices", {})

\* checked is st.session_state[f"device_checkbox_{device_id}"]
on_individual_device_checkbox_change(ss, device_id, checked) ==
    LET selected == IF checked THEN ss.selected_devices \cup {device_id}
                    ELSE ss.selected_devices \ {device_id}
        options == ss.filtered_device_options
    IN Put(Put(ss, "selected_devices", selected), "toggle_all_checkbox",
           Cardinality(selected) = Cardinality(options) /\ Cardinality(options) > 0)

\* ---- the script pass (lines 112-304) ----
PassResult(ss, o, melted, final) ==
    [session_state |-> ss, outcome |-> o, df_melted |-> melted, selected_devices_final |-> final]

\* lines 239-254: what is plotted
PlotOutcome(filtered_df, final) ==
    LET df_to_plot == IF final = {} THEN <<>>
                      ELSE SelectSeq(filtered_df, LAMBDA r : r.device \in final)
    IN IF df_to_plot = <<>>
       THEN (IF final = {} THEN "select_devices" ELSE "no_match")
       ELSE "plotted"

\* lines 196-254: device options, pruning, the select-all flag, the plot
DeviceSidebar(ss, filtered_df, melted) ==
    LET options == DeviceOptions(filtered_df)
        s1 == Default(Put(ss, "filtered_device_options", options), "selected_devices", {})
        s2 == Put(s1, "selected_devices", PruneSelection(s1.selected_devices, options))
        flag == initial_toggle_all_value(s2.selected_devices, options)
        s3 == IF "toggle_all_checkbox" \notin DOMAIN s2 \/ s2.toggle_all_checkbox # flag
              THEN Put(s2, "toggle_all_checkbox", flag)
              ELSE s2
        final == s3.selected_devices
    IN PassResult(s3, PlotOutcome(filtered_df, final), melted, final)

\* a slip: the chosen dates are stored before the range is validated
DateRange_StoresFirst(ss, melted) ==
    LET s1 == Put(Put(ss, "start_date", ss.start_date_picker),
                  "end_date", ss.end_date_picker)
    IN IF s1.start_date > s1.end_date
       THEN PassResult(s1, "fault_invalid_range", melted, {})
       ELSE DeviceSidebar(s1, FilterByRange(melted, s1.start_date, s1.end_date), melted)

\* lines 181-194, then 197: an invalid range leaves filtered_df = pd.DataFrame(),
\* which has no device column, so line 197 raises KeyError
DateRange(ss, melted) ==
    LET start_date_input == ss.start_date_picker
        end_date_input == ss.end_date_picker
    IN IF start_date_input > end_date_input
       THEN PassResult(ss, "fault_invalid_range", melted, {})
       ELSE LET s1 == Put(Put(ss, "start_date", start_date_input), "end_date", end_date_input)
            IN DeviceSidebar(s1, FilterByRange(melted, s1.start_date, s1.end_date), melted)

\* lines 153-179: min/max of the records, the stored range, the two date pickers
\* (a date_input takes value= only when it is first created).  On an empty
\* record set min()/max() are NaT and the date_input cannot be built.
DateWidgets(ss, melted) ==
    IF melted = <<>>
    THEN PassResult(Default(Default(ss, "start_date", NaT), "end_date", NaT),
                    "fault_no_records", melted, {})
    ELSE LET min_date_overall == SeqMin(Dates(melted))
             max_date_overall == SeqMax(Dates(melted))
             s1 == Default(Default(ss, "start_date", min_date_overall),
                           "end_date", max_date_overall)
             s2 == Default(Default(s1, "start_date_picker", s1.start_date),
                           "end_date_picker", s1.end_date)
         IN DateRange(s2, melted)

\* lines 112-148
ScriptPass(ss, table) ==
    IF table.rows = <<>>
    THEN PassResult(ss, "no_data", <<>>, {})
    ELSE LET df == ParseDates(table.rows)
             cols == device_columns(table.header)
         IN IF cols = <<>>
            THEN PassResult(ss, "no_device_columns", <<>>, {})
            ELSE DateWidgets(ss, Reshape(df, cols))

\* outcomes after which the device checkboxes are on the page
Rendered == {"select_devices", "no_match", "plotted"}
\* outcomes after which the date pickers are on the page
DatePickersShown == Rendered \cup {"fault_invalid_range"}

\* ---- actions ----
Render ==
    /\ pc \in {"start", "rerun"}
    /\ LET r == ScriptPass(session_state, data)
       IN /\ session_state' = r.session_state
          /\ outcome' = r.outcome
          /\ df_melted' = r.df_melted
          /\ selected_devices_final' = r.selected_devices_final
          /\ pc' = IF r.outcome \in DatePickersShown THEN "idle" ELSE "halted"
    /\ UNCHANGED <<data, last_op, pre>>

\* the user picks another date in one of the two pickers, within [min, max]
PickDate(key, d) ==
    /\ pc = "idle"
    /\ outcome \in DatePickersShown
    /\ d >= SeqMin(Dates(df_melted)) /\ d <= SeqMax(Dates(df_melted))
    /\ d # session_state[key]
    /\ session_state' = Put(session_state, key, d)
    /\ pre' = Snapshot(session_state)
    /\ last_op' = [op |-> "set_date_range"]
    /\ pc' = "rerun"
    /\ UNCHANGED <<data, outcome, df_melted, selected_devices_final>>

PickStartDate == \E d \in 1..MaxDay : PickDate("start_date_picker", d)
PickEndDate == \E d \in 1..MaxDay : PickDate("end_date_picker", d)

\* the select-all checkbox gets the value checked, then its callback runs
ToggleAll(checked) ==
    /\ session_state' = on_select_all_toggle(Put(session_state, "toggle_all_checkbox", checked))
    /\ pre' = Snapshot(session_state)
    /\ last_op' = [op |-> "toggle_all", checked |-> checked]
    /\ pc' = "rerun"
    /\ UNCHANGED <<data, outcome, df_melted, selected_devices_final>>

\* a device checkbox gets the value checked, then its callback runs
ToggleDevice(device_id, checked) ==
    /\ session_state' = on_individual_device_checkbox_change(session_state, device_id, checked)
    /\ pre' = Snapshot(session_state)
    /\ last_op' = [op |-> "toggle_device", device |-> device_id, checked |-> checked]
    /\ pc' = "rerun"
    /\ UNCHANGED <<data, outcome, df_melted, selected_devices_final>>

\* through the page: a click flips the select-all box; only the devices of the
\* current options have a checkbox
ClickSelectAll ==
    /\ pc = "idle" /\ outcome \in Rendered
    /\ ToggleAll(~session_state.toggle_all_checkbox)

ClickDevice ==
    /\ pc = "idle" /\ outcome \in Rendered
    /\ \E d \in session_state.filtered_device_options, checked \in BOOLEAN :
           ToggleDevice(d, checked)

Next == Render \/ PickStartDate \/ PickEndDate \/ ClickSelectAll \/ ClickDevice

Spec == Init /\ [][Next]_vars

\* the callbacks called directly: any argument, any number of calls in a row
DirectCall ==
    /\ outcome \in Rendered
    /\ pc = "idle" \/ (pc = "rerun" /\ last_op.op # "set_date_range")

CallToggleAll ==
    /\ DirectCall
    /\ \E checked \in BOOLEAN : ToggleAll(checked)

CallToggleDevice ==
    /\ DirectCall
    /\ \E d \in DeviceSet, checked \in BOOLEAN : ToggleDevice(d, checked)

NextApi == Render \/ PickStartDate \/ PickEndDate \/ CallToggleAll \/ CallToggleDevice

SpecApi == Init /\ [][NextApi]_vars

\* the data pipeline alone, on sheets with every kind of cell
SpecSheet == InitSheet /\ [][Render]_vars

\* ---- readings of the state used by the properties ----
Has(ss, k) == k \in DOMAIN ss
Selection == session_state.selected_devices
Catalog == session_state.filtered_device_options
Flag == session_state.toggle_all_checkbox
Faults == {"fault_invalid_range", "fault_no_records"}
AfterToggle == pc = "rerun" /\ last_op.op \in {"toggle_all", "toggle_device"}
AfterDateChange == pc = "idle" /\ last_op.op = "set_date_range"
InvalidRange ==
    /\ Has(session_state, "start_date_picker") /\ Has(session_state, "end_date_picker")
    /\ session_state.start_date_picker > session_state.end_date_picker

\* C1: after each toggle_device / toggle_all call returns, the select-all flag is
\* true exactly when the selection equals the device options and these are non-empty.
C1_FlagAfterEveryToggle ==
    AfterToggle => (Flag <=> (Selection = Catalog /\ Catalog # {}))

\* C2: a pass over a date range with start > end never ends in a fault.
C2_InvalidRangeIsNotAFault ==
    (AfterDateChange /\ InvalidRange) => outcome \notin Faults

\* C3: a pass over a date range with start > end leaves the selection and the
\* stored range as they were before the interaction, and the stored range of a
\* page showing the date pickers always has start_date <= end_date.
C3_InvalidRangeKeepsState ==
    /\ (AfterDateChange /\ InvalidRange) =>
           /\ Selection = pre.selected_devices
           /\ session_state.start_date = pre.start_date
           /\ session_state.end_date = pre.end_date
    /\ (pc = "idle") => session_state.start_date <= session_state.end_date

C3_Witness ==
    /\ AfterDateChange /\ InvalidRange
    /\ pre.selected_devices # {}
    /\ Selection = pre.selected_devices

\* C4: after a valid date-range change the selection is exactly the selection
\* before intersected with the new device options.
C4_PruneIsIntersection ==
    (AfterDateChange /\ ~InvalidRange) =>
        /\ Selection = pre.selected_devices \cap Catalog
        /\ \A d \in pre.selected_devices \ Catalog : d \notin Selection
        /\ \A d \in pre.selected_devices \cap Catalog : d \in Selection
        /\ Selection \subseteq pre.selected_devices

C4_Witness ==
    /\ AfterDateChange /\ ~InvalidRange
    /\ pre.selected_devices \ Catalog # {}
    /\ Selection # {}

\* C5: the device set a pass reads from selected_devices to filter the records
\* is a subset of the device options, also after a callback was called with a
\* device outside the options.
C5_EffectiveSelectionInCatalog ==
    Has(session_state, "filtered_device_options") => selected_devices_final \subseteq Catalog

C5_Witness ==
    /\ pc = "idle" /\ last_op.op = "toggle_device"
    /\ last_op.checked /\ last_op.device \notin Catalog
    /\ selected_devices_final # {}

\* C6: toggle_device on a device outside the device options changes neither the
\* selection nor the select-all flag.
C6_ToggleOutsideCatalogIsNoOp ==
    (pc = "rerun" /\ last_op.op = "toggle_device"
        /\ last_op.device \notin pre.filtered_device_options) =>
        /\ Selection = pre.selected_devices
        /\ Flag = pre.toggle_all_checkbox

\* C7: toggle_all(checked) leaves the selection equal to the device options when
\* checked and empty when unchecked, whatever it was before, and a second call
\* with the same argument changes nothing.
C7_ToggleAllSetsAndIsIdempotent ==
    (pc = "rerun" /\ last_op.op = "toggle_all") =>
        /\ Selection = (IF last_op.checked THEN Catalog ELSE {})
        /\ on_select_all_toggle(Put(session_state, "toggle_all_checkbox", last_op.checked))
               = session_state

C7_Witness ==
    /\ pc = "rerun" /\ last_op.op = "toggle_all" /\ last_op.checked
    /\ pre.selected_devices \ Catalog # {}
    /\ Selection = Catalog /\ Catalog # {}

\* C8: after a valid date-range change that changes the device options, the flag
\* is true exactly when the pruned selection equals the new options and these
\* are non-empty; all selected and narrowed to a non-empty subset keeps the flag
\* true with the subset selected, narrowed to nothing makes it false.
C8_FlagAfterCatalogChange ==
    (AfterDateChange /\ ~InvalidRange /\ Catalog # pre.filtered_device_options) =>
        /\ Flag <=> (Selection = Catalog /\ Catalog # {})
        /\ (pre.selected_devices = pre.filtered_device_options
               /\ Catalog \subseteq pre.filtered_device_options /\ Catalog # {})
             => (Selection = Catalog /\ Flag)
        /\ Catalog = {} => ~Flag

C8_Witness ==
    /\ AfterDateChange /\ ~InvalidRange
    /\ pre.toggle_all_checkbox /\ pre.selected_devices = pre.filtered_device_options
    /\ Catalog # pre.filtered_device_options /\ Catalog \subseteq pre.filtered_device_options
    /\ Catalog # {} /\ Selection = Catalog /\ Flag

\* what a value cell is expected to read as
ExpectedValue(cell) ==
    CASE cell = <<"1", "0">> -> 10
      [] cell = <<"7">> -> 7
      [] OTHER -> NaN

LongRows == [date : 1..MaxDay, device : DeviceSet, value : {7, 10}]
Reshaped == pc # "start" /\ outcome \notin {"no_data", "no_device_columns"}
ParseablePairs ==
    {p \in (1..Len(data.rows)) \X Range(data.header) :
        /\ data.rows[p[1]].date # "bad"
        /\ ExpectedValue(data.rows[p[1]].vals[p[2]]) # NaN}
LongRowOf(p) ==
    [date |-> ToDatetime(data.rows[p[1]].date), device |-> p[2],
     value |-> ExpectedValue(data.rows[p[1]].vals[p[2]])]

\* C9: the long table has exactly one row (date, device_id, value) for each
\* (row, device column) pair whose cell is a number and none for the others;
\* device_id is the column header.
C9_ReshapeIsExact ==
    Reshaped =>
        /\ \A i \in 1..Len(df_melted) : df_melted[i] \in LongRows
        /\ \A t \in LongRows :
               Cardinality({i \in 1..Len(df_melted) : df_melted[i] = t})
                   = Cardinality({p \in ParseablePairs : LongRowOf(p) = t})

C9_Witness ==
    /\ Reshaped
    /\ Len(data.rows) = 1 /\ data.header = DeviceSeq
    /\ data.rows[1] = [date |-> "2024-01-01",
                       vals |-> [d \in DeviceSet |-> IF d = "devA" THEN <<"1", "0">>
                                                     ELSE <<"b", "a", "d">>]]
    /\ df_melted = <<[date |-> 1, device |-> "devA", value |-> 10]>>

\* C10: a sheet with rows and device columns of which every row is dropped ends
\* the pass with the "no data" message.
C10_AllDroppedIsNoData ==
    (pc # "start" /\ data.rows # <<>> /\ data.header # <<>> /\ ParseablePairs = {})
        => outcome = "no_data"
====
